---- MODULE Spec2Model ----
(***************************************************************************)
(* Beam analysis engine (src/js/beam-analysis.js): the dispatcher          *)
(* BeamAnalysis.prototype, the simply-supported analyzer and the two-span  *)
(* analyzer with its three sampling loops.                                 *)
(*                                                                         *)
(* Numbers.  A JavaScript number is modelled as an exact rational          *)
(* [n |-> numerator, d |-> denominator] in lowest terms with d > 0; the    *)
(* two non-numbers the code can produce are NaN (0/0 when load = 0) and    *)
(* undefined (an array read out of range), both with d = 0.  Arithmetic is *)
(* exact: the binary rounding of IEEE doubles is not modelled, the decimal *)
(* rounding the code asks for (toFixed, Math.round) is.                    *)
(***************************************************************************)
EXTENDS Integers, Sequences, FiniteSets, TLC

\* ------------------------------------------------------------------ bounds
\* Span lengths are k / Scale for k in 1..MaxSpan.
Scale == 3
MaxSpan == 10
\* Only beams with primary * secondary <= MaxArea (in 1/Scale^2) are drawn.
MaxArea == 36
\* Loads are the integers 0..MaxLoad.
MaxLoad == 2
\* The while loops are followed for at most MaxIter iterations.  A loop that
\* exits does so within 16; one still running at MaxIter has stored the same
\* position in its last iterations and, its next position depending only on
\* the last two stored ones, runs on for ever.
MaxIter == 20

\* ------------------------------------------------------- exact arithmetic
\* The one element of a singleton set.  Operators below take their operands
\* through {<<x0, y0>>} so that each operand is evaluated once.
The(S) == CHOOSE r \in S : TRUE

RECURSIVE GCD(_, _)
GCD(m, n) ==
    IF n = 0 THEN m ELSE The({GCD(a, b) : <<a, b>> \in {<<n, m % n>>}})

IAbs(k) == IF k < 0 THEN -k ELSE k

\* n/d in lowest terms, d # 0.
Rat(n0, d0) ==
    The({LET g == GCD(IAbs(n), IAbs(d))
         IN  IF d < 0 THEN [n |-> (-n) \div g, d |-> (-d) \div g]
             ELSE [n |-> n \div g, d |-> d \div g] : <<n, d>> \in {<<n0, d0>>}})

Num(k) == [n |-> k, d |-> 1]
NaN == [n |-> 0, d |-> 0]
Undefined == [n |-> 1, d |-> 0]
IsNum(x) == x.d # 0

\* x + y; NaN when an operand is not a number.
RAdd(x0, y0) ==
    The({IF IsNum(x) /\ IsNum(y)
         THEN LET g == GCD(x.d, y.d)
              IN  Rat(x.n * (y.d \div g) + y.n * (x.d \div g), x.d * (y.d \div g))
         ELSE NaN : <<x, y>> \in {<<x0, y0>>}})

RNeg(x0) == The({IF IsNum(x) THEN [n |-> -x.n, d |-> x.d] ELSE NaN : x \in {x0}})

RSub(x, y) == RAdd(x, RNeg(y))

\* x * y, cancelling across before multiplying.
RMul(x0, y0) ==
    The({IF IsNum(x) /\ IsNum(y)
         THEN LET g1 == GCD(IAbs(x.n), y.d)
                  g2 == GCD(IAbs(y.n), x.d)
              IN  Rat((x.n \div g1) * (y.n \div g2), (x.d \div g2) * (y.d \div g1))
         ELSE NaN : <<x, y>> \in {<<x0, y0>>}})

\* x / y; 0/0 is NaN.  A non-zero number over zero (an infinity) does not
\* arise for positive spans and is mapped to NaN as well.
RDiv(x0, y0) ==
    The({IF IsNum(x) /\ IsNum(y) /\ y.n # 0
         THEN RMul(x, Rat(y.d, y.n))
         ELSE NaN : <<x, y>> \in {<<x0, y0>>}})

RAbs(x0) == The({IF IsNum(x) THEN [n |-> IAbs(x.n), d |-> x.d] ELSE NaN : x \in {x0}})

\* Math.pow(x, k) for a small non-negative integer k.
RECURSIVE RPow(_, _)
RPow(x0, k) ==
    The({IF k = 0 THEN Num(1) ELSE RMul(x, RPow(x, k - 1)) : x \in {x0}})

\* The comparison operators of JavaScript: false as soon as an operand is
\* NaN or undefined (undefined converts to NaN).
RLt(x0, y0) ==
    \E <<x, y>> \in {<<x0, y0>>} : IsNum(x) /\ IsNum(y) /\ RSub(x, y).n < 0
RLe(x0, y0) ==
    \E <<x, y>> \in {<<x0, y0>>} : IsNum(x) /\ IsNum(y) /\ RSub(x, y).n <= 0
RGt(x, y) == RLt(y, x)

\* x === y and x !== y.
StrictEq(x0, y0) ==
    \E <<x, y>> \in {<<x0, y0>>} :
        (IsNum(x) /\ IsNum(y) /\ x = y) \/ (x = Undefined /\ y = Undefined)
StrictNe(x, y) == ~StrictEq(x, y)

\* v || 0 : undefined, NaN and 0 are falsy.
OrZero(v0) == The({IF IsNum(v) /\ v.n # 0 THEN v ELSE Num(0) : v \in {v0}})

\* arr[k] of a JavaScript array held as a sequence (index 0 is arr[1]).
At(arr, k) == IF k >= 0 /\ k < Len(arr) THEN arr[k + 1] ELSE Undefined

\* arr[k] = v written one index further out.
SetAtNext(arr0, k, v0) ==
    The({[j \in 1..(IF k + 2 > Len(arr) THEN k + 2 ELSE Len(arr)) |->
             IF j = k + 2 THEN v
             ELSE IF j <= Len(arr) THEN arr[j]
             ELSE Undefined] : <<arr, v>> \in {<<arr0, v0>>}})

\* arr[k] = v: the array grows to length k + 1 when it is shorter, and the
\* indices skipped over are holes, which read as undefined.
SetAt(arr0, k, v0) ==
    The({[j \in 1..(IF k + 1 > Len(arr) THEN k + 1 ELSE Len(arr)) |->
             IF j = k + 1 THEN v
             ELSE IF j <= Len(arr) THEN arr[j]
             ELSE Undefined] : <<arr, v>> \in {<<arr0, v0>>}})

\* Long division of r / d (0 <= r < d) continued for k decimal digits after
\* the integer part acc: <<floor(10^k * value), remainder>>.
RECURSIVE Digits(_, _, _, _)
Digits(acc0, r0, d, k) ==
    IF k = 0 THEN <<acc0, r0>>
    ELSE The({Digits(10 * acc + ((10 * r) \div d), (10 * r) % d, d, k - 1) :
                 <<acc, r>> \in {<<acc0, r0>>}})

Pow10(k) == IF k = 1 THEN 10 ELSE 100

\* parseFloat(x.toFixed(digits)): nearest multiple of 10^-digits, a tie
\* going away from zero.
ToFixed(x0, digits) ==
    The({IF ~IsNum(x) THEN NaN
         ELSE LET a == IAbs(x.n)
                  fr == Digits(a \div x.d, a % x.d, x.d, digits)
                  m == IF 2 * fr[2] >= x.d THEN fr[1] + 1 ELSE fr[1]
              IN  Rat((IF x.n < 0 THEN -m ELSE m), Pow10(digits)) : x \in {x0}})

\* Math.round(x * 100) / 100: nearest multiple of 0.01, a tie going up.
Round100(x0) ==
    The({IF ~IsNum(x) THEN NaN
         ELSE IF x.n >= 0 THEN ToFixed(x, 2)
         ELSE LET a == -x.n
                  fr == Digits(a \div x.d, a % x.d, x.d, 2)
                  m == IF 2 * fr[2] > x.d THEN fr[1] + 1 ELSE fr[1]
              IN  Rat(-m, 100) : x \in {x0}})

\* ------------------------------------------------------------ data types
\* Material(name, properties) and Beam(primarySpan, secondarySpan, material).
Material(name, properties) == [name |-> name, properties |-> properties]

Beam(primarySpan, secondarySpan, material) ==
    [primarySpan |-> primarySpan, secondarySpan |-> secondarySpan,
     material |-> material]

\* The inputs a caller may pass.
Materials ==
    {Material("timber", [EI |-> Num(1000000000), j2 |-> Num(1)]),
     Material("steel", [EI |-> Num(2000000000), j2 |-> Num(2)])}

Beams ==
    {Beam(Rat(a, Scale), Rat(b, Scale), m) :
        <<a, b, m>> \in {t \in (1..MaxSpan) \X (1..MaxSpan) \X Materials :
                            t[1] * t[2] <= MaxArea}}

Loads == {Num(w) : w \in 0..MaxLoad}

\* Condition tags: the two registered ones, two unregistered ones and a
\* name every object inherits from Object.prototype.
Conditions ==
    {"simply-supported", "two-span-unequal", "three-span", "undefined",
     "constructor"}

\* Own keys of this.analyzer and the names it inherits.
OwnAnalyzers == {"simply-supported", "two-span-unequal"}
ObjectPrototypeNames == {"constructor"}

\* new BeamAnalysis.analyzer.simplySupported() and new ...twoSpanUnequal():
\* the constructors are called without arguments, so both fields are
\* undefined.
NewAnalyzer == [beam |-> Undefined, load |-> Undefined]

\* new BeamAnalysis(): this.options and this.analyzer.
BeamAnalysis ==
    [options |-> [condition |-> "simply-supported"],
     analyzer |-> [c \in OwnAnalyzers |-> NewAnalyzer]]

\* ---------------------------------------------------------------- state
VARIABLES
    self,        \* the BeamAnalysis object (this)
    beam,        \* the Beam passed to the call
    load,        \* the load passed to the call
    condition,   \* the condition passed to the call
    operation,   \* the operation called, "none" before a call
    pc,          \* "idle", the two-span loop running, "returned", "threw"
    results,     \* const results = []   (two-span loops)
    resultsV,    \* const resultsV = []
    i,           \* let i = 0
    isCounting,  \* let isCounting = true
    outcome,     \* what the call returned or threw
    first,       \* the caller's copy of what its first call gave
    again        \* the caller has come back for another call

vars ==
    <<self, beam, load, condition, operation, pc, results, resultsV, i,
      isCounting, outcome, first, again>>

NoOutcome == [kind |-> "none"]

\* this.analyzer[condition]
AnalyzerLookup(cond) ==
    IF cond \in DOMAIN self.analyzer THEN cond
    ELSE IF cond \in ObjectPrototypeNames THEN "Object.prototype." \o cond
    ELSE "undefined"

\* if (analyzer): undefined is falsy, an analyzer or an inherited function
\* is truthy.
Truthy(analyzer) == analyzer # "undefined"

\* ------------------------------------------- two-span reaction solution
totalLength(bm) == RAdd(bm.primarySpan, bm.secondarySpan)

M1(bm, w) ==
    RDiv(RNeg(RAdd(RMul(w, RPow(bm.secondarySpan, 3)),
                   RMul(w, RPow(bm.primarySpan, 3)))),
         RMul(Num(8), RAdd(bm.primarySpan, bm.secondarySpan)))

R1(bm, w) ==
    RAdd(RDiv(M1(bm, w), bm.primarySpan), RDiv(RMul(w, bm.primarySpan), Num(2)))

R3(bm, w) ==
    RAdd(RDiv(M1(bm, w), bm.secondarySpan), RDiv(RMul(w, bm.secondarySpan), Num(2)))

R2(bm, w) ==
    RSub(RSub(RAdd(RMul(w, bm.primarySpan), RMul(w, bm.secondarySpan)), R1(bm, w)),
         R3(bm, w))

\* totalLength / 10, the uniform step.
Step(bm) == RDiv(totalLength(bm), Num(10))

\* R1 / load and totalLength - (R3 / load), the zero-shear positions.
ZeroShearLeft(bm, w) == RDiv(R1(bm, w), w)
ZeroShearRight(bm, w) == RSub(totalLength(bm), RDiv(R3(bm, w), w))

\* ------------------------------- position of the next sample (two-span)
\* The if / else-if chain of the deflection and bending-moment loops.
NextX(bm, w, res, k) ==
    LET previousX == OrZero(At(res, k - 1))
        previousXtwice == At(res, k - 2)
        L1 == bm.primarySpan
        T == totalLength(bm)
        st == Step(bm)
        zl == ZeroShearLeft(bm, w)
        zr == ZeroShearRight(bm, w)
    IN  IF k = 0 THEN Num(0)
        ELSE IF StrictEq(previousX, Num(0)) THEN RAdd(previousX, st)
        ELSE IF RLe(RAbs(RSub(previousX, L1)), st) /\ RLt(RSub(previousX, L1), Num(0))
             THEN L1
        ELSE IF /\ RLt(previousX, L1)
                /\ StrictNe(previousX, zl)
                /\ StrictNe(previousXtwice, zl)
                /\ RLe(RAbs(RSub(previousX, zl)), st)
             THEN zl
        ELSE IF RLt(RAbs(RSub(previousX, T)), st) THEN T
        ELSE IF /\ RGt(previousX, L1)
                /\ StrictNe(previousX, zr)
                /\ StrictNe(previousXtwice, zr)
                /\ RLt(RAbs(RSub(previousX, zr)), st)
             THEN zr
        ELSE IF StrictEq(previousX, zl) \/ StrictEq(previousX, zr)
             THEN RAdd(previousXtwice, st)
        ELSE RAdd(previousX, st)

\* The if / else-if chain of the shear-force loop.
NextXShear(bm, w, res, k) ==
    LET previousX == OrZero(At(res, k - 1))
        previousXtwice == At(res, k - 2)
        L1 == bm.primarySpan
        T == totalLength(bm)
        st == Step(bm)
    IN  IF k = 0 THEN Num(0)
        ELSE IF StrictEq(previousX, Num(0)) THEN RAdd(previousX, st)
        ELSE IF RLe(RAbs(RSub(previousX, L1)), st) /\ RLt(RSub(previousX, L1), Num(0))
             THEN L1
        ELSE IF /\ StrictEq(RSub(previousX, L1), Num(0))
                /\ RLe(RAbs(RSub(previousXtwice, L1)), st)
                /\ StrictNe(previousXtwice, previousX)
             THEN L1
        ELSE IF RLt(RAbs(RSub(previousX, T)), st) THEN T
        ELSE RAdd(previousX, st)

\* ------------------------------------------------ response values (two-span)
\* The deflection closed forms are polynomials of degree four in the
\* position; a deflection value is kept as the closed form that produced it
\* and the position it was evaluated at.
calculateXLessThan12(currentKey) ==
    [form |-> "calculateXLessThan12", key |-> currentKey]

calculateXGreaterThan13(currentKey) ==
    [form |-> "calculateXGreaterThan13", key |-> currentKey]

\* The number calculateXLessThan12 returns.  It is asked for at the supports
\* only, where the position has the denominator of the span lengths.
calculateXLessThan12Value(bm, w, currentKey) ==
    LET L1 == bm.primarySpan
        EI == bm.material.properties.EI
        j2 == bm.material.properties.j2
        r1 == R1(bm, w)
    IN  RMul(RMul(RMul(RDiv(currentKey,
                            RMul(Num(24), RDiv(EI, Num(1000 * 1000 * 1000)))),
                       RSub(RAdd(RSub(RMul(RMul(Num(4), r1), RPow(currentKey, 2)),
                                      RMul(w, RPow(currentKey, 3))),
                                 RMul(w, RPow(L1, 3))),
                            RMul(RMul(Num(4), r1), RPow(L1, 2)))),
                  Num(1000)), j2)

\* calculateXGreaterThan13 without the term - R2 * primarySpan^3 / 6.
calculateXGreaterThan13ValueNoCubeTerm(bm, w, currentKey) ==
    LET L1 == bm.primarySpan
        EI == bm.material.properties.EI
        j2 == bm.material.properties.j2
        r1 == R1(bm, w)
        r2 == R2(bm, w)
        t1 == RMul(RDiv(RMul(r1, currentKey), Num(6)),
                   RSub(RPow(currentKey, 2), RPow(L1, 2)))
        t2 == RMul(RDiv(RMul(r2, currentKey), Num(6)),
                   RAdd(RSub(RPow(currentKey, 2),
                             RMul(RMul(Num(3), L1), currentKey)),
                        RMul(Num(3), RPow(L1, 2))))
        t4 == RMul(RDiv(RMul(w, currentKey), Num(24)),
                   RSub(RPow(currentKey, 3), RPow(L1, 3)))
    IN  RMul(RMul(RDiv(RSub(RAdd(t1, t2), t4),
                       RDiv(EI, Num(1000 * 1000 * 1000))),
                  Num(1000)), j2)

\* The number calculateXGreaterThan13 returns (asked for at the supports).
calculateXGreaterThan13Value(bm, w, currentKey) ==
    LET L1 == bm.primarySpan
        EI == bm.material.properties.EI
        j2 == bm.material.properties.j2
        r1 == R1(bm, w)
        r2 == R2(bm, w)
        t1 == RMul(RDiv(RMul(r1, currentKey), Num(6)),
                   RSub(RPow(currentKey, 2), RPow(L1, 2)))
        t2 == RMul(RDiv(RMul(r2, currentKey), Num(6)),
                   RAdd(RSub(RPow(currentKey, 2),
                             RMul(RMul(Num(3), L1), currentKey)),
                        RMul(Num(3), RPow(L1, 2))))
        t3 == RDiv(RMul(r2, RPow(L1, 3)), Num(6))
        t4 == RMul(RDiv(RMul(w, currentKey), Num(24)),
                   RSub(RPow(currentKey, 3), RPow(L1, 3)))
    IN  RMul(RMul(RDiv(RSub(RSub(RAdd(t1, t2), t3), t4),
                       RDiv(EI, Num(1000 * 1000 * 1000))),
                  Num(1000)), j2)

\* The number a kept two-span deflection value stands for.
DeflectionNumber(bm, w, v) ==
    IF v.form = "calculateXLessThan12"
    THEN calculateXLessThan12Value(bm, w, v.key)
    ELSE calculateXGreaterThan13Value(bm, w, v.key)

\* countV with the interior reaction left out right of the support.
countVMomentNoR2(bm, w, currentKey) ==
    LET half == Rat(1, 2)
    IN  IF StrictEq(currentKey, Num(0)) \/ StrictEq(currentKey, totalLength(bm))
        THEN Num(0)
        ELSE Round100(RNeg(RSub(RMul(R1(bm, w), currentKey),
                                RMul(RMul(half, w), RPow(currentKey, 2)))))

\* countV of getBendingMomentEquation.
countVMoment(bm, w, currentKey) ==
    LET L1 == bm.primarySpan
        half == Rat(1, 2)
    IN  IF StrictEq(currentKey, Num(0)) \/ StrictEq(currentKey, totalLength(bm))
        THEN Num(0)
        ELSE IF RLt(currentKey, L1)
             THEN Round100(RNeg(RSub(RMul(R1(bm, w), currentKey),
                                     RMul(RMul(half, w), RPow(currentKey, 2)))))
        ELSE IF RGt(currentKey, L1)
             THEN Round100(RNeg(RSub(RAdd(RMul(R1(bm, w), currentKey),
                                          RMul(R2(bm, w), RSub(currentKey, L1))),
                                     RMul(RMul(half, w), RPow(currentKey, 2)))))
        ELSE Round100(RNeg(RSub(RMul(R1(bm, w), L1),
                                RMul(RMul(half, w), RPow(L1, 2)))))

parseNum(num) == ToFixed(num, 2)

\* countV of getShearForceEquation.
countVShear(bm, w, currentKey, previousKey, nextKey) ==
    LET L1 == bm.primarySpan
        T == totalLength(bm)
    IN  IF StrictEq(currentKey, Num(0)) THEN parseNum(R1(bm, w))
        ELSE IF StrictEq(currentKey, T)
             THEN parseNum(RSub(RAdd(R1(bm, w), R2(bm, w)), RMul(w, T)))
        ELSE IF StrictEq(currentKey, L1) /\ RLt(RSub(previousKey, L1), Num(0))
             THEN parseNum(RSub(R1(bm, w), RMul(w, L1)))
        ELSE IF StrictEq(currentKey, L1) /\ RGt(RSub(nextKey, L1), Num(0))
             THEN parseNum(RSub(RAdd(R1(bm, w), R2(bm, w)), RMul(w, L1)))
        ELSE IF RLt(currentKey, L1)
             THEN parseNum(RSub(R1(bm, w), RMul(w, currentKey)))
        ELSE parseNum(RSub(RAdd(R1(bm, w), R2(bm, w)), RMul(w, currentKey)))

\* --------------------------------------------------- simply-supported curves
\* The deflection value is kept as the position it was evaluated at.
SimplyDeflectionValue(bm, w, x) ==
    [form |-> "simplySupported", key |-> x]

SimplyMomentValue(bm, w, x) ==
    ToFixed(RMul(RMul(RDiv(RMul(w, x), Num(2)), RSub(bm.primarySpan, x)), Num(-1)), 1)

SimplyShearValue(bm, w, x) ==
    ToFixed(RMul(w, RSub(RDiv(bm.primarySpan, Num(2)), x)), 1)

SimplyValue(op, bm, w, x) ==
    IF op = "deflection" THEN SimplyDeflectionValue(bm, w, x)
    ELSE IF op = "bendingMoment" THEN SimplyMomentValue(bm, w, x)
    ELSE SimplyShearValue(bm, w, x)

\* for (let i = 0; i <= primarySpan; i += step) { push x; push V }
RECURSIVE SimplyLoop(_, _, _, _, _, _)
SimplyLoop(op, bm, w, i0, xValues0, vValues0) ==
    The({IF RLe(iv, bm.primarySpan)
         THEN LET x == ToFixed(iv, 1)
              IN  SimplyLoop(op, bm, w, RAdd(iv, RDiv(bm.primarySpan, Num(10))),
                             Append(xValues, x),
                             Append(vValues, SimplyValue(op, bm, w, x)))
         ELSE [x |-> xValues, y |-> vValues] :
            <<iv, xValues, vValues>> \in {<<i0, xValues0, vValues0>>}})

simplySupportedEquation(op, bm, w) == SimplyLoop(op, bm, w, Num(0), <<>>, <<>>)

\* ------------------------------------------------------------------ Init
NoCall == [operation |-> "none", outcome |-> NoOutcome]

Init ==
    /\ self = BeamAnalysis
    /\ beam \in Beams
    /\ load \in Loads
    /\ condition \in Conditions
    /\ operation = "none"
    /\ first = NoCall
    /\ again = FALSE
    /\ pc = "idle"
    /\ results = <<>>
    /\ resultsV = <<>>
    /\ i = 0
    /\ isCounting = TRUE
    /\ outcome = NoOutcome

\* --------------------------------------------------------------- dispatch
Result(equation) ==
    [kind |-> "result", beam |-> beam, load |-> load, equation |-> equation]

\* The caller keeps what its first call gave.
Keep(op) ==
    first' = IF first = NoCall /\ pc' \in {"returned", "threw"}
             THEN [operation |-> op, outcome |-> outcome']
             ELSE first

\* One of getDeflection / getBendingMoment / getShearForce.
Dispatch(op, method) ==
    LET analyzer == AnalyzerLookup(condition)
    IN  /\ pc = "idle"
        /\ operation' = op
        /\ IF Truthy(analyzer)
           THEN IF analyzer = "simply-supported"
                THEN /\ pc' = "returned"
                     /\ outcome' = Result(simplySupportedEquation(op, beam, load))
                     /\ UNCHANGED <<results, resultsV, i, isCounting>>
                ELSE IF analyzer = "two-span-unequal"
                THEN /\ pc' = op
                     /\ results' = <<>>
                     /\ resultsV' = <<>>
                     /\ i' = 0
                     /\ isCounting' = TRUE
                     /\ UNCHANGED outcome
                ELSE \* an inherited member has no such method
                     /\ pc' = "threw"
                     /\ outcome' = [kind |-> "error", name |-> "TypeError",
                                    message |-> "analyzer." \o method \o " is not a function"]
                     /\ UNCHANGED <<results, resultsV, i, isCounting>>
           ELSE /\ pc' = "threw"
                /\ outcome' = [kind |-> "error", name |-> "Error",
                               message |-> "Invalid condition"]
                /\ UNCHANGED <<results, resultsV, i, isCounting>>
        /\ Keep(op)
        /\ UNCHANGED <<beam, load, condition, again>>

\* A dispatcher that hands its arguments to the analyzer it found, as the
\* analyzer constructors do.
CallStoring(op, method) ==
    /\ Dispatch(op, method)
    /\ self' = IF condition \in DOMAIN self.analyzer
               THEN [self EXCEPT !.analyzer[condition] =
                                     [beam |-> beam, load |-> load]]
               ELSE self

\* The dispatcher assigns to no member of this.
Call(op, method) ==
    /\ Dispatch(op, method)
    /\ UNCHANGED self

getDeflection == Call("deflection", "getDeflectionEquation")
getBendingMoment == Call("bendingMoment", "getBendingMomentEquation")
getShearForce == Call("shearForce", "getShearForceEquation")

\* ------------------------------------------------- two-span sampling loops
\* One iteration of the while loop of twoSpanUnequal.getDeflectionEquation.
DeflectionIteration ==
    /\ pc = "deflection"
    /\ isCounting
    /\ i < MaxIter
    /\ \E x \in {NextX(beam, load, results, i)} :
       LET res == Append(results, x)
           previousKey == OrZero(At(res, i - 1))
           v1 == IF i > 0
                 THEN SetAt(resultsV, i - 1,
                            IF i >= 13 THEN calculateXGreaterThan13(previousKey)
                            ELSE calculateXLessThan12(previousKey))
                 ELSE resultsV
           counting == RLt(x, totalLength(beam))
       IN  /\ results' = res
           /\ isCounting' = counting
           /\ resultsV' = IF counting THEN v1
                          ELSE SetAt(v1, i, calculateXGreaterThan13(x))
    /\ i' = i + 1
    /\ UNCHANGED <<self, beam, load, condition, operation, pc, outcome, first,
                   again>>

\* One iteration of the while loop of twoSpanUnequal.getBendingMomentEquation.
BendingMomentIteration ==
    /\ pc = "bendingMoment"
    /\ isCounting
    /\ i < MaxIter
    /\ \E x \in {NextX(beam, load, results, i)} :
       LET res == Append(results, x)
           previousKey == OrZero(At(res, i - 1))
           v1 == IF i > 0
                 THEN SetAt(resultsV, i - 1, countVMoment(beam, load, previousKey))
                 ELSE resultsV
           counting == RLt(x, totalLength(beam))
       IN  /\ results' = res
           /\ isCounting' = counting
           /\ resultsV' = IF counting THEN v1
                          ELSE SetAt(v1, i, countVMoment(beam, load, x))
    /\ i' = i + 1
    /\ UNCHANGED <<self, beam, load, condition, operation, pc, outcome, first,
                   again>>

\* One iteration of the while loop of twoSpanUnequal.getShearForceEquation.
ShearForceIteration ==
    /\ pc = "shearForce"
    /\ isCounting
    /\ i < MaxIter
    /\ \E x \in {NextXShear(beam, load, results, i)} :
       LET currentKey == ToFixed(x, 1)
           res == Append(results, currentKey)
           previousKey == OrZero(At(res, i - 1))
           nextKey == OrZero(At(res, i + 1))
           previousTwoKey == OrZero(At(res, i - 2))
           v1 == IF i > 0
                 THEN SetAt(resultsV, i - 1,
                            countVShear(beam, load, previousKey, previousTwoKey, currentKey))
                 ELSE resultsV
           counting == RLt(x, totalLength(beam))
       IN  /\ results' = res
           /\ isCounting' = counting
           /\ resultsV' = IF counting THEN v1
                          ELSE SetAt(v1, i, countVShear(beam, load, currentKey,
                                                      previousKey, nextKey))
    /\ i' = i + 1
    /\ UNCHANGED <<self, beam, load, condition, operation, pc, outcome, first,
                   again>>

\* return { x: results, y: resultsV } and the dispatcher's return.
TwoSpanReturn ==
    /\ pc \in {"deflection", "bendingMoment", "shearForce"}
    /\ ~isCounting
    /\ pc' = "returned"
    /\ outcome' = Result([x |-> results, y |-> resultsV])
    /\ Keep(pc)
    /\ UNCHANGED <<self, beam, load, condition, operation, results, resultsV,
                   i, isCounting, again>>

\* The caller, its call over, makes ready to call the same engine again
\* with the same beam, load and condition; the locals of the call that
\* ended are gone.
CallAgain ==
    /\ pc \in {"returned", "threw"}
    /\ pc' = "idle"
    /\ operation' = "none"
    /\ outcome' = NoOutcome
    /\ results' = <<>>
    /\ resultsV' = <<>>
    /\ i' = 0
    /\ isCounting' = TRUE
    /\ again' = TRUE
    /\ UNCHANGED <<self, beam, load, condition, first>>

Next ==
    \/ getDeflection
    \/ getBendingMoment
    \/ getShearForce
    \/ DeflectionIteration
    \/ BendingMomentIteration
    \/ ShearForceIteration
    \/ TwoSpanReturn

Spec == Init /\ [][Next]_vars

\* The loops run to completion once called: every enabled step is taken.
FairSpec == Spec /\ WF_vars(Next)

\* A caller that goes on calling the engine.
NextCalls == Next \/ CallAgain

CallsSpec == Init /\ [][NextCalls]_vars

\* ================================================================ claims
TwoSpanOps == {"deflection", "bendingMoment", "shearForce"}

\* The loop of the two-span operation op has exited: results / resultsV are
\* the x / y the call returns.
Finished(op) == pc = op /\ ~isCounting

Positive(w) == IsNum(w) /\ w.n > 0

\* Number of indices of seq holding v.
Count(seq, v) == Cardinality({k \in 1..Len(seq) : seq[k] = v})

\* C1: for the two-span condition with positive spans and load, the x
\* sequence of each curve is non-decreasing, and strictly increasing except
\* for the duplicate pair at x = L1 in the shear curve.
C1_XNonDecreasing ==
    \A op \in TwoSpanOps :
        Finished(op) /\ Positive(load) =>
            \A k \in 1..(Len(results) - 1) :
                \/ RLt(results[k], results[k + 1])
                \/ /\ op = "shearForce"
                   /\ results[k] = results[k + 1]
                   /\ results[k] = beam.primarySpan

\* C2: for the two-span condition with positive spans and load, the x
\* sequence of each curve holds the interior-support position L1.
C2_ContainsL1 ==
    \A op \in TwoSpanOps :
        Finished(op) /\ Positive(load) => Count(results, beam.primarySpan) >= 1

\* C3: for the two-span condition with positive spans and load, the x
\* sequence of each curve holds both zero-shear positions R1/w and
\* totalLength - R3/w, each exactly once.
C3_ContainsZeroShear ==
    \A op \in TwoSpanOps :
        Finished(op) /\ Positive(load) =>
            /\ Count(results, ZeroShearLeft(beam, load)) = 1
            /\ Count(results, ZeroShearRight(beam, load)) = 1

\* C4: every call comes to an end: each two-span sampling loop exits after
\* finitely many samples and the call returns (or throws).
C4_Terminates == <>(pc \in {"returned", "threw"})

\* C5: every returned curve starts at x = 0 and ends at x = totalLength
\* exactly (L for simply-supported, L1 + L2 for two-span).
C5_EndsAtTotalLength ==
    pc = "returned" =>
        LET x == outcome.equation.x
            T == IF condition = "simply-supported" THEN beam.primarySpan
                 ELSE totalLength(beam)
        IN  /\ Len(x) >= 1
            /\ x[1] = Num(0)
            /\ x[Len(x)] = T

\* C6: a condition other than the two registered tags makes each operation
\* raise the invalid-condition error, carrying the condition, and return no
\* result.
C6_InvalidConditionError ==
    condition \notin OwnAnalyzers /\ pc # "idle" =>
        /\ pc = "threw"
        /\ outcome.kind = "error"
        /\ outcome.name = "Error"
        /\ outcome.message = "Invalid condition"
        /\ "condition" \in DOMAIN outcome
        /\ outcome["condition"] = condition

\* C7: the two-span shear curve has exactly two samples at x = L1, adjacent,
\* the first with the left value R1 - w*L1 and the second with the right
\* value R1 + R2 - w*L1; every other sample has V = R1 - w*x left of L1 and
\* V = R1 + R2 - w*x right of it (values to the two decimals the curve keeps).
C7_ShearJumpAtL1 ==
    Finished("shearForce") /\ Positive(load) =>
        LET L1 == beam.primarySpan
            at == {k \in 1..Len(results) : results[k] = L1}
            left(x) == parseNum(RSub(R1(beam, load), RMul(load, x)))
            right(x) == parseNum(RSub(RAdd(R1(beam, load), R2(beam, load)),
                                      RMul(load, x)))
        IN  /\ Cardinality(at) = 2
            /\ \E k \in at : /\ k + 1 \in at
                             /\ resultsV[k] = left(L1)
                             /\ resultsV[k + 1] = right(L1)
            /\ \A k \in (1..Len(results)) \ at :
                   resultsV[k] = IF RLt(results[k], L1) THEN left(results[k])
                                 ELSE right(results[k])

\* A deflection value as the closed form named by the claim would give it.
\* The two closed forms differ by the term R2 * (x - L1)^3 / 6 (times the
\* common factor 1000 * j2 / (EI / 10^9)), so they give the same number
\* exactly at x = L1 or when the load, hence R2, is zero.
SameDeflection(u, v) ==
    /\ u.key = v.key
    /\ \/ u.form = v.form
       \/ u.key = beam.primarySpan
       \/ ~Positive(load)

\* C8: in the two-span deflection curve a sample at or left of L1 is
\* evaluated with the left closed form and a sample right of L1 with the
\* right closed form, whatever its index.
C8_DeflectionFormByPosition ==
    Finished("deflection") =>
        /\ Len(resultsV) = Len(results)
        /\ \A k \in 1..Len(results) :
               SameDeflection(resultsV[k],
                   IF RLe(results[k], beam.primarySpan)
                   THEN calculateXLessThan12(results[k])
                   ELSE calculateXGreaterThan13(results[k]))

\* The bending moment the claim states for position x.
StatedMoment(x) ==
    LET L1 == beam.primarySpan
        wx2 == RDiv(RMul(load, RMul(x, x)), Num(2))
    IN  IF RLe(x, L1)
        THEN RNeg(RSub(RMul(R1(beam, load), x), wx2))
        ELSE RNeg(RSub(RAdd(RMul(R1(beam, load), x),
                            RMul(R2(beam, load), RSub(x, L1))), wx2))

\* C9 as stated: in the two-span bending-moment curve the first and last
\* samples are 0 and every sample is the stated closed form at its x.
C9_MomentAsStated ==
    Finished("bendingMoment") =>
        /\ Len(resultsV) = Len(results)
        /\ resultsV[1] = Num(0)
        /\ resultsV[Len(resultsV)] = Num(0)
        /\ \A k \in 1..Len(results) : resultsV[k] = StatedMoment(results[k])

\* C9 amended: in the two-span bending-moment curve the first and last
\* samples are 0, every sample is the stated closed form at its x rounded
\* to the nearest 0.01, and the closed form is exactly 0 at totalLength.
C9_MomentRounded ==
    Finished("bendingMoment") =>
        /\ Len(resultsV) = Len(results)
        /\ resultsV[1] = Num(0)
        /\ resultsV[Len(resultsV)] = Num(0)
        /\ \A k \in 1..Len(results) :
               resultsV[k] = Round100(StatedMoment(results[k]))
        /\ StatedMoment(totalLength(beam)) = Num(0)

\* A finished bending-moment curve with samples on both sides of L1, one of
\* them not a multiple of 0.01 before rounding.
C9_Witness ==
    /\ Finished("bendingMoment")
    /\ Positive(load)
    /\ \E k \in 1..Len(results) : RLt(results[k], beam.primarySpan)
                                  /\ resultsV[k] # StatedMoment(results[k])
    /\ \E k \in 1..Len(results) : /\ RGt(results[k], beam.primarySpan)
                                  /\ RLt(results[k], totalLength(beam))
                                  /\ resultsV[k].n # 0

\* C10: the reactions balance the load, R1 + R2 + R3 = w * (L1 + L2); the
\* shear curve starts with the value R1 and ends with R1 + R2 - w*totalLength,
\* which is -R3 (values to the two decimals the curve keeps).
C10_ShearEndValues ==
    Finished("shearForce") =>
        LET T == totalLength(beam)
        IN  /\ RAdd(RAdd(R1(beam, load), R2(beam, load)), R3(beam, load))
                   = RMul(load, T)
            /\ resultsV[1] = parseNum(R1(beam, load))
            /\ resultsV[Len(resultsV)]
                   = parseNum(RSub(RAdd(R1(beam, load), R2(beam, load)), RMul(load, T)))
            /\ resultsV[Len(resultsV)] = parseNum(RNeg(R3(beam, load)))

\* C11: the two-span deflection curve has the value zero at its sample at
\* x = 0 and at its sample at x = totalLength, and the left and the right
\* closed form are both zero at x = L1, for every span pair, load and
\* material.
C11_ZeroAtSupports ==
    Finished("deflection") =>
        LET L1 == beam.primarySpan
            T == totalLength(beam)
        IN  /\ Len(resultsV) = Len(results)
            /\ results[1] = Num(0)
            /\ results[Len(results)] = T
            /\ \A k \in 1..Len(results) :
                   results[k] \in {Num(0), T} =>
                       DeflectionNumber(beam, load, resultsV[k]) = Num(0)
            /\ calculateXLessThan12Value(beam, load, L1) = Num(0)
            /\ calculateXGreaterThan13Value(beam, load, L1) = Num(0)

\* A finished deflection curve of a loaded steel beam with unequal spans:
\* the first value is a left closed form at 0, the last a right closed form
\* at totalLength, and the interior reaction is not zero.
C11_Witness ==
    /\ Finished("deflection")
    /\ Positive(load)
    /\ beam.primarySpan # beam.secondarySpan
    /\ beam.material.name = "steel"
    /\ resultsV[1] = calculateXLessThan12(Num(0))
    /\ resultsV[Len(resultsV)] = calculateXGreaterThan13(totalLength(beam))
    /\ R2(beam, load).n > 0

\* C12: under the simply-supported condition each curve has exactly 11
\* samples, the sample of index k at the position k * L / 10 exactly
\* (k = 0..10), with the response value evaluated at that position.
C12_ElevenExactSamples ==
    pc = "returned" /\ condition = "simply-supported" =>
        LET x == outcome.equation.x
            y == outcome.equation.y
            L == beam.primarySpan
        IN  /\ Len(x) = 11
            /\ Len(y) = 11
            /\ \A k \in 0..10 :
                   \E xk \in {RMul(Num(k), RDiv(L, Num(10)))} :
                       /\ x[k + 1] = xk
                       /\ y[k + 1] = SimplyValue(operation, beam, load, xk)

\* C13: under the simply-supported condition the shear sample at x = 0 is
\* w * L / 2 and the one at x = L is -w * L / 2; the bending-moment samples at
\* x = 0 and x = L are 0, and the bending-moment curve has its extremum at
\* the sample x = L / 2, with the value -w * L^2 / 8 (values to the one
\* decimal the curve keeps).
C13_SimplySupportedEnds ==
    pc = "returned" /\ condition = "simply-supported" =>
        LET x == outcome.equation.x
            y == outcome.equation.y
            L == beam.primarySpan
            half == RDiv(L, Num(2))
            wL2 == RDiv(RMul(load, L), Num(2))
            wL8 == RDiv(RMul(load, RPow(L, 2)), Num(8))
            at(p) == {k \in 1..Len(x) : x[k] = p}
        IN  /\ at(Num(0)) # {}
            /\ at(L) # {}
            /\ operation = "shearForce" =>
                   /\ \A k \in at(Num(0)) : y[k] = ToFixed(wL2, 1)
                   /\ \A k \in at(L) : y[k] = ToFixed(RNeg(wL2), 1)
            /\ operation = "bendingMoment" =>
                   /\ \A k \in at(Num(0)) \cup at(L) : y[k] = Num(0)
                   /\ at(half) # {}
                   /\ \A k \in at(half) :
                          /\ y[k] = ToFixed(RNeg(wL8), 1)
                          /\ \A j \in 1..Len(y) : RLe(y[k], y[j])

\* A y entry that was assigned a value.
Defined(v) == v # Undefined /\ v # NaN

\* The value the two-span sampler of op owes the sample of index k (from 1).
InStep(op, k) ==
    IF op = "deflection" THEN resultsV[k].key = results[k]
    ELSE IF op = "bendingMoment"
         THEN resultsV[k] = countVMoment(beam, load, results[k])
    ELSE resultsV[k] = countVShear(beam, load, results[k],
                                   OrZero(At(results, k - 2)),
                                   OrZero(At(results, k)))

\* C14: every returned curve has x and y of the same length and every y
\* entry defined.  In the two-span samplers, which write the value of sample
\* i - 1 one iteration late and the last value on exit, y is one short of x
\* while the loop runs and as long as x once it has exited, with no index of
\* y unassigned and each value the one of the position at the same index.
C14_SameLengthDefined ==
    /\ pc = "returned" =>
           /\ Len(outcome.equation.x) = Len(outcome.equation.y)
           /\ Len(outcome.equation.x) >= 1
           /\ \A k \in 1..Len(outcome.equation.y) :
                  Defined(outcome.equation.y[k])
    /\ \A op \in TwoSpanOps :
           pc = op =>
               /\ Len(results) = i
               /\ Len(resultsV) = IF isCounting /\ i > 0 THEN i - 1 ELSE i
               /\ \A k \in 1..Len(resultsV) :
                      Defined(resultsV[k]) /\ InStep(op, k)

\* A two-span shear curve of a loaded beam returned with twelve samples or
\* more, all but the last written one iteration late.
C14_Witness ==
    /\ pc = "returned"
    /\ condition = "two-span-unequal"
    /\ operation = "shearForce"
    /\ Positive(load)
    /\ i >= 12
    /\ Len(outcome.equation.y) = i

\* What the state predicate part of C15 asks of a state: the engine object
\* is as constructed, a result carries the beam and load passed in, and a
\* call of the operation the caller made first gives what that call gave.
PureState ==
    /\ self = BeamAnalysis
    /\ pc = "returned" => outcome.beam = beam /\ outcome.load = load
    /\ pc \in {"returned", "threw"} /\ first.operation = operation =>
           outcome = first.outcome

\* C15: every engine operation is pure.  No step of a call changes the
\* Beam, its Material, the load or the engine object with its analyzer
\* table; a result carries the beam and load passed in; and a call with the
\* same beam, load and condition as an earlier call of the same operation,
\* whatever calls were made in between, gives the same x and y (the same
\* error, when it throws).
C15_Pure ==
    /\ []PureState
    /\ [][self' = self /\ beam' = beam /\ load' = load]_vars

\* A later call of the two-span operation the caller made first has
\* returned, with the x sequence of that first call.
C15_Witness ==
    /\ again
    /\ pc = "returned"
    /\ condition = "two-span-unequal"
    /\ Positive(load)
    /\ first.operation = "bendingMoment"
    /\ operation = "bendingMoment"
    /\ i >= 12
    /\ first.outcome.equation.x = results

====
